---- MODULE Spec2Model ----
(***************************************************************************)
(* Model of scripts/analyze_data.py: a linear pipeline that seeds the      *)
(* generator, builds a customer DataFrame, adds two correlation terms,     *)
(* writes two CSV files and two charts, runs a two-sample t-test and       *)
(* writes a text report.                                                   *)
(*                                                                         *)
(* Numbers.  age and income are kept in whole units.  spending_score and   *)
(* the group means are kept in hundredths (fixed point), so that           *)
(* income / 5000 is exact for the incomes used: (income * 100) \div 5000.  *)
(* p-values are in millionths, t-statistics in ten-thousandths.  A float   *)
(* that may be NaN is a record [nan, v]; comparisons with NaN are false.   *)
(*                                                                         *)
(* Libraries.  numpy's generator and scipy's t-test are outside the        *)
(* repository.  What the generator yields for seed 42 (mt) and what the    *)
(* t-test yields on the resulting non-degenerate groups (scipy_ttest) are  *)
(* fixed but unknown functions of their inputs: both are chosen in Init    *)
(* and never change.                                                       *)
(***************************************************************************)
EXTENDS Integers, Sequences, FiniteSets, TLC

VARIABLES
  pc,           \* position of the script (a label of Pipeline, or "aborted")
  rng,          \* state of numpy's global generator: [key, pos]
  mt,           \* the stream the generator yields once seeded with 42
  scipy_ttest,  \* the result of stats.ttest_ind on two non-empty groups
  data,         \* the DataFrame: a sequence of rows
  premium,      \* spending_score of rows with is_premium == 1
  non_premium,  \* spending_score of rows with is_premium == 0
  tt,           \* (t_stat, p_value) of line 106
  written,      \* paths this process has written, in order
  out,          \* lines this process has printed, in order
  failed_at,    \* stage whose call raised, "none" otherwise
  files,        \* paths that exist on disk
  csv,          \* content of data/raw_customer_data.csv
  summary,      \* content of results/summary_statistics.csv
  report,       \* content of results/statistical_analysis.txt (<<>> or <<r>>)
  prev          \* snapshots of earlier runs of the script

vars == <<pc, rng, mt, scipy_ttest, data, premium, non_premium, tt, written,
          out, failed_at, files, csv, summary, report, prev>>

----------------------------------------------------------------------------
(* Bounds *)

n_samples == 2
MaxRuns == 2

----------------------------------------------------------------------------
(* Floats that may be NaN *)

NaN == [nan |-> TRUE, v |-> 0]
Num(x) == [nan |-> FALSE, v |-> x]
Lt(a, b) == ~a.nan /\ ~b.nan /\ a.v < b.v

----------------------------------------------------------------------------
(* The generator *)

seed == 42

\* Raw draws of one row, before clipping: values below, inside, on and above
\* the clip intervals; both flags; the four regions.
RawRows ==
  { [age |-> 10, income |->  10000, spending_score |->  -500, region |-> "North", is_premium |-> 0],
    [age |-> 80, income |-> 160000, spending_score |-> 12000, region |-> "South", is_premium |-> 1],
    [age |-> 35, income |->  50000, spending_score |->  5000, region |-> "East",  is_premium |-> 0],
    [age |-> 35, income |->  50000, spending_score |->  5000, region |-> "West",  is_premium |-> 1],
    [age |-> 18, income |-> 150000, spending_score |-> 10000, region |-> "North", is_premium |-> 1],
    [age |-> 70, income |->  20000, spending_score |->   100, region |-> "South", is_premium |-> 0] }

Streams == [1..n_samples -> RawRows]

\* An unseeded generator is seeded from the operating system: its stream
\* differs from one process to the next.
EntropyKeys == {-1, -2}
EntropyStream(k) ==
  IF k = -1
  THEN [i \in 1..n_samples |-> [age |-> 35, income |-> 50000, spending_score |-> 5000, region |-> "East", is_premium |-> 0]]
  ELSE [i \in 1..n_samples |-> [age |-> 80, income |-> 160000, spending_score |-> 12000, region |-> "South", is_premium |-> 1]]

Stream(r) == IF r.key = seed THEN mt ELSE EntropyStream(r.key)

----------------------------------------------------------------------------
(* Pure helpers *)

Min(a, b) == IF a < b THEN a ELSE b
Max(a, b) == IF a > b THEN a ELSE b

clip_nolower(x, lo, hi) == Min(x, hi)
clip(x, lo, hi) == Min(Max(x, lo), hi)

DataFrame_zero_based(s) ==
  [i \in 1..n_samples |->
     [customer_id    |-> i - 1,
      age            |-> clip(s[i].age, 18, 70),
      income         |-> clip(s[i].income, 20000, 150000),
      spending_score |-> clip(s[i].spending_score, 1 * 100, 100 * 100),
      region         |-> s[i].region,
      is_premium     |-> s[i].is_premium]]
\* lines 23-30: range(1, n_samples + 1) and the five clipped draws
DataFrame(s) ==
  [i \in 1..n_samples |->
     [customer_id    |-> i,
      age            |-> clip(s[i].age, 18, 70),
      income         |-> clip(s[i].income, 20000, 150000),
      spending_score |-> clip(s[i].spending_score, 1 * 100, 100 * 100),
      region         |-> s[i].region,
      is_premium     |-> s[i].is_premium]]

\* line 33
AddAgeToIncome(d) ==
  [i \in 1..Len(d) |-> [d[i] EXCEPT !.income = d[i].income + d[i].age * 800]]

AddIncomeToSpending_base_income(d) ==
  [i \in 1..Len(d) |->
     [d[i] EXCEPT !.spending_score =
        d[i].spending_score + ((d[i].income - d[i].age * 800) * 100) \div 5000]]
\* line 34
AddIncomeToSpending(d) ==
  [i \in 1..Len(d) |->
     [d[i] EXCEPT !.spending_score =
        d[i].spending_score + (d[i].income * 100) \div 5000]]

RECURSIVE Select(_, _)
\* data[data['is_premium'] == flag]['spending_score']
Select(d, flag) ==
  IF d = <<>> THEN <<>>
  ELSE IF Head(d).is_premium = flag
       THEN <<Head(d).spending_score>> \o Select(Tail(d), flag)
       ELSE Select(Tail(d), flag)

Premium(d) == Select(d, 1)
NonPremium_copy_paste(d) == Select(d, 1)
NonPremium(d) == Select(d, 0)

RECURSIVE Sum(_)
Sum(s) == IF s = <<>> THEN 0 ELSE Head(s) + Sum(Tail(s))

\* Series.mean(): NaN on an empty series
Mean(s) ==
  IF Len(s) = 0 THEN [nan |-> TRUE, num |-> 0, den |-> 1]
  ELSE [nan |-> FALSE, num |-> Sum(s), den |-> Len(s)]

TTestResults ==
  { [statistic |-> NaN,         pvalue |-> NaN],
    [statistic |-> Num(-98000), pvalue |-> Num(0)],
    [statistic |-> Num(19600),  pvalue |-> Num(49999)],
    [statistic |-> Num(19599),  pvalue |-> Num(50000)],
    [statistic |-> Num(-19598), pvalue |-> Num(50001)] }

\* stats.ttest_ind: NaN when a group is empty, the library's value otherwise
ttest_ind(a, b) ==
  IF Len(a) = 0 \/ Len(b) = 0
  THEN [statistic |-> NaN, pvalue |-> NaN]
  ELSE scipy_ttest

Verdict_le(p) == IF ~p.nan /\ p.v <= 50000 THEN "YES" ELSE "NO"
\* line 118: 'YES' if p_value < 0.05 else 'NO'
Verdict(p) == IF Lt(p, Num(50000)) THEN "YES" ELSE "NO"

\* data.describe(): the count row
Describe(d) == [count |-> Len(d)]

----------------------------------------------------------------------------
(* Control flow *)

RawCsv == "data/raw_customer_data.csv"
SummaryCsv == "results/summary_statistics.csv"
DistPng == "results/distributions.png"
CorrPng == "results/correlation_matrix.png"
ReportTxt == "results/statistical_analysis.txt"

Pipeline_save_first ==
  << "start", "seed", "construct", "adjust_income", "save_raw",
     "adjust_spending", "overview", "summary", "distributions",
     "correlation", "ttest", "report", "manifest", "done" >>
\* the statements of the script, top to bottom
Pipeline ==
  << "start", "seed", "construct", "adjust_income", "adjust_spending",
     "overview", "save_raw", "summary", "distributions", "correlation",
     "ttest", "report", "manifest", "done" >>

Index(s) == CHOOSE i \in 1..Len(Pipeline) : Pipeline[i] = s
NextStage(s) == Pipeline[Index(s) + 1]

Abort_swallowed == pc' = NextStage(pc) /\ failed_at' = pc
\* an exception raised at module level is not caught: the process exits
Abort == pc' = "aborted" /\ failed_at' = pc

----------------------------------------------------------------------------
(* Initial state: the process has started, nothing has run *)

Init ==
  /\ pc = "start"
  /\ \E k \in EntropyKeys : rng = [key |-> k, pos |-> 0]
  /\ mt \in Streams
  /\ scipy_ttest \in TTestResults
  /\ data = <<>>
  /\ premium = <<>>
  /\ non_premium = <<>>
  /\ tt = [statistic |-> NaN, pvalue |-> NaN]
  /\ written = <<>>
  /\ out = <<>>
  /\ failed_at = "none"
  /\ files = {}
  /\ csv = <<>>
  /\ summary = <<>>
  /\ report = <<>>
  /\ prev = <<>>

lib == <<mt, scipy_ttest>>
disk == <<files, csv, summary, report>>
groups == <<premium, non_premium, tt>>

----------------------------------------------------------------------------
(* The statements of the script *)

\* lines 16-17
Start ==
  /\ pc = "start"
  /\ out' = Append(out, "starting")
  /\ pc' = NextStage(pc)
  /\ UNCHANGED <<rng, lib, data, groups, written, failed_at, disk, prev>>

Seed_missing ==
  /\ pc = "seed"
  /\ pc' = NextStage(pc)
  /\ UNCHANGED <<rng, lib, data, groups, written, out, failed_at, disk, prev>>
\* lines 20-21: np.random.seed(42)
Seed ==
  /\ pc = "seed"
  /\ rng' = [key |-> seed, pos |-> 0]
  /\ pc' = NextStage(pc)
  /\ UNCHANGED <<lib, data, groups, written, out, failed_at, disk, prev>>

\* lines 23-30: five columns of n_samples draws each
Construct ==
  /\ pc = "construct"
  /\ data' = DataFrame(Stream(rng))
  /\ rng' = [rng EXCEPT !.pos = @ + 5 * n_samples]
  /\ pc' = NextStage(pc)
  /\ UNCHANGED <<lib, groups, written, out, failed_at, disk, prev>>

\* line 33
AdjustIncome ==
  /\ pc = "adjust_income"
  /\ data' = AddAgeToIncome(data)
  /\ pc' = NextStage(pc)
  /\ UNCHANGED <<rng, lib, groups, written, out, failed_at, disk, prev>>

\* line 34
AdjustSpending ==
  /\ pc = "adjust_spending"
  /\ data' = AddIncomeToSpending(data)
  /\ pc' = NextStage(pc)
  /\ UNCHANGED <<rng, lib, groups, written, out, failed_at, disk, prev>>

\* lines 36-39
Overview ==
  /\ pc = "overview"
  /\ out' = Append(out, "overview")
  /\ pc' = NextStage(pc)
  /\ UNCHANGED <<rng, lib, data, groups, written, failed_at, disk, prev>>

\* lines 42-43: to_csv raises when data/ is missing or not writable
SaveRaw ==
  /\ pc = "save_raw"
  /\ \E ok \in BOOLEAN :
       IF ok
       THEN /\ files' = files \cup {RawCsv}
            /\ csv' = data
            /\ written' = Append(written, RawCsv)
            /\ out' = Append(out, "saved raw data")
            /\ pc' = NextStage(pc)
            /\ UNCHANGED <<failed_at, summary, report>>
       ELSE /\ Abort
            /\ UNCHANGED <<written, out, disk>>
  /\ UNCHANGED <<rng, lib, data, groups, prev>>

\* lines 46-48
Summary ==
  /\ pc = "summary"
  /\ \E ok \in BOOLEAN :
       IF ok
       THEN /\ files' = files \cup {SummaryCsv}
            /\ summary' = <<Describe(data)>>
            /\ written' = Append(written, SummaryCsv)
            /\ out' = Append(out, "generated summary statistics")
            /\ pc' = NextStage(pc)
            /\ UNCHANGED <<failed_at, csv, report>>
       ELSE /\ Abort
            /\ UNCHANGED <<written, out, disk>>
  /\ UNCHANGED <<rng, lib, data, groups, prev>>

\* lines 51-88: the print of line 51 precedes the drawing and savefig
Distributions ==
  /\ pc = "distributions"
  /\ \E ok \in BOOLEAN :
       IF ok
       THEN /\ files' = files \cup {DistPng}
            /\ written' = Append(written, DistPng)
            /\ out' = out \o <<"creating visualizations", "saved distributions">>
            /\ pc' = NextStage(pc)
            /\ UNCHANGED failed_at
       ELSE /\ Abort
            /\ out' = Append(out, "creating visualizations")
            /\ UNCHANGED <<written, files>>
  /\ UNCHANGED <<rng, lib, data, groups, csv, summary, report, prev>>

\* lines 91-99
Correlation ==
  /\ pc = "correlation"
  /\ \E ok \in BOOLEAN :
       IF ok
       THEN /\ files' = files \cup {CorrPng}
            /\ written' = Append(written, CorrPng)
            /\ out' = Append(out, "saved correlation matrix")
            /\ pc' = NextStage(pc)
            /\ UNCHANGED failed_at
       ELSE /\ Abort
            /\ UNCHANGED <<written, out, files>>
  /\ UNCHANGED <<rng, lib, data, groups, csv, summary, report, prev>>

TTest_filter_in_place ==
  /\ pc = "ttest"
  /\ out' = Append(out, "performing statistical analysis")
  /\ premium' = Premium(data)
  /\ non_premium' = NonPremium(data)
  /\ tt' = ttest_ind(premium', non_premium')
  /\ data' = SelectSeq(data, LAMBDA r : r.is_premium = 1)
  /\ pc' = NextStage(pc)
  /\ UNCHANGED <<rng, lib, written, failed_at, disk, prev>>
\* lines 102-106
TTest ==
  /\ pc = "ttest"
  /\ out' = Append(out, "performing statistical analysis")
  /\ premium' = Premium(data)
  /\ non_premium' = NonPremium(data)
  /\ tt' = ttest_ind(premium', non_premium')
  /\ pc' = NextStage(pc)
  /\ UNCHANGED <<rng, lib, data, written, failed_at, disk, prev>>

\* lines 108-120: open() raises when results/ is missing or not writable
Report ==
  /\ pc = "report"
  /\ \E ok \in BOOLEAN :
       IF ok
       THEN /\ files' = files \cup {ReportTxt}
            /\ report' = << [n_premium        |-> Len(premium),
                             n_non_premium    |-> Len(non_premium),
                             mean_premium     |-> Mean(premium),
                             mean_non_premium |-> Mean(non_premium),
                             t_stat           |-> tt.statistic,
                             p_value          |-> tt.pvalue,
                             verdict          |-> Verdict(tt.pvalue)] >>
            /\ written' = Append(written, ReportTxt)
            /\ out' = Append(out, "saved statistical analysis")
            /\ pc' = NextStage(pc)
            /\ UNCHANGED <<failed_at, csv, summary>>
       ELSE /\ Abort
            /\ UNCHANGED <<written, out, disk>>
  /\ UNCHANGED <<rng, lib, data, groups, prev>>

\* lines 122-133
Manifest ==
  /\ pc = "manifest"
  /\ out' = out \o <<"ANALYSIS COMPLETE", "manifest">>
  /\ pc' = NextStage(pc)
  /\ UNCHANGED <<rng, lib, data, groups, written, failed_at, disk, prev>>

\* The script is run again: a new process, a generator seeded by the
\* operating system, the disk as the earlier run left it.
Rerun ==
  /\ pc \in {"done", "aborted"}
  /\ Len(prev) < MaxRuns - 1
  /\ prev' = Append(prev, [pc |-> pc, data |-> data, premium |-> premium,
                           non_premium |-> non_premium, tt |-> tt,
                           report |-> report])
  /\ pc' = "start"
  /\ \E k \in EntropyKeys : rng' = [key |-> k, pos |-> 0]
  /\ data' = <<>>
  /\ premium' = <<>>
  /\ non_premium' = <<>>
  /\ tt' = [statistic |-> NaN, pvalue |-> NaN]
  /\ written' = <<>>
  /\ out' = <<>>
  /\ failed_at' = "none"
  /\ UNCHANGED <<lib, disk>>

Next ==
  \/ Start
  \/ Seed
  \/ Construct
  \/ AdjustIncome
  \/ AdjustSpending
  \/ Overview
  \/ SaveRaw
  \/ Summary
  \/ Distributions
  \/ Correlation
  \/ TTest
  \/ Report
  \/ Manifest

\* one run of the script
Spec == Init /\ [][Next]_vars

NextRuns ==
  \/ Next
  \/ Rerun

\* the script run up to MaxRuns times in a row
SpecRuns == Init /\ [][NextRuns]_vars

----------------------------------------------------------------------------
(* Vocabulary of the properties *)

Range(s) == {s[i] : i \in 1..Len(s)}
Count(s, v) == Cardinality({i \in 1..Len(s) : s[i] = v})
IsPrefix(s, t) == Len(s) <= Len(t) /\ s = SubSeq(t, 1, Len(s))

OutputOrder == <<RawCsv, SummaryCsv, DistPng, CorrPng, ReportTxt>>

\* both correlation adjustments have been applied
Adjusted ==
  pc \notin {"start", "seed", "construct", "adjust_income", "adjust_spending"}

\* the DataFrame has been constructed
Constructed == pc \notin {"start", "seed", "construct"}

\* lines 103-106 have run
Partitioned ==
  \/ pc \in {"report", "manifest", "done"}
  \/ pc = "aborted" /\ failed_at = "report"

\* the dataset that seed 42 leads to, both adjustments applied
Complete(s) == AddIncomeToSpending(AddAgeToIncome(DataFrame(s)))

\* number of files written before the stage
WritesBefore(stage) ==
  CASE stage = "save_raw"      -> 0
    [] stage = "summary"       -> 1
    [] stage = "distributions" -> 2
    [] stage = "correlation"   -> 3
    [] stage = "report"        -> 4
    [] OTHER                   -> 5

----------------------------------------------------------------------------
\* C1: the output files are written in the order raw CSV, summary CSV,
\* distributions chart, correlation chart, report: what has been written is
\* always an initial part of that order, and nothing is written before the
\* dataset, both correlation adjustments included, is complete.
C1_StagesInOrder ==
  /\ IsPrefix(written, OutputOrder)
  /\ written # <<>> => Adjusted /\ data = Complete(mt)

C1_Witness == pc = "done" /\ written = OutputOrder

\* C2: once both correlation adjustments have been applied, no step changes
\* the dataset: its rows and its row count stay as they are until the
\* process exits.
C2_FrozenAfterAdjust ==
  [][Adjusted => (data' = data /\ Len(data') = n_samples)]_vars

C2_Witness ==
  pc = "done" /\ Len(data) = n_samples /\ report # <<>> /\ csv = data

\* C3: when one of the two groups is empty the analyzer raises an error:
\* the script does not go on past the t-test and no report with the
\* statistics of an empty group is written.
C3_EmptyGroupRaises ==
  LET empty == Len(premium) = 0 \/ Len(non_premium) = 0 IN
  /\ pc \in {"report", "manifest", "done"} => ~empty
  /\ report # <<>> =>
       /\ report[1].n_premium > 0 /\ report[1].n_non_premium > 0
       /\ ~report[1].mean_premium.nan /\ ~report[1].mean_non_premium.nan

\* C4: a failed write is fatal: the process stops at that stage and does
\* nothing more, no file of a later stage exists, ANALYSIS COMPLETE is not
\* printed, and the files of the earlier stages are still there.
C4_Aborted ==
  failed_at # "none" =>
    /\ pc = "aborted"
    /\ "ANALYSIS COMPLETE" \notin Range(out)
    /\ written = SubSeq(OutputOrder, 1, WritesBefore(failed_at))
    /\ files = Range(written)
    /\ Count(written, ReportTxt) = 0

C4_WriteFailureFatal ==
  /\ []C4_Aborted
  /\ [][pc = "aborted" => UNCHANGED vars]_vars

C4_Witness ==
  /\ pc = "aborted" /\ failed_at = "distributions"
  /\ files = {RawCsv, SummaryCsv}

\* C5: every run of the script yields the dataset of the runs before it,
\* and with it the same groups, statistics and verdict; after the DataFrame
\* is constructed the generator is not drawn from again.
C5_Deterministic ==
  /\ Adjusted => rng = [key |-> seed, pos |-> 5 * n_samples]
  /\ \A i \in 1..Len(prev) :
       /\ Adjusted => data = prev[i].data
       /\ Partitioned /\ prev[i].pc \in {"done"} =>
            /\ premium = prev[i].premium
            /\ non_premium = prev[i].non_premium
            /\ tt = prev[i].tt
       /\ pc = "done" /\ prev[i].pc = "done" => report = prev[i].report

C5_Witness ==
  /\ Len(prev) >= 1 /\ prev[1].pc = "done" /\ pc = "done"
  /\ report # <<>> /\ Len(prev[1].data) = n_samples

\* C6: from construction to exit, row i (counted from 0) has
\* customer_id i + 1: the ids are 1, 2, ..., n_samples.
C6_CustomerIds ==
  Constructed =>
    /\ Len(data) = n_samples
    /\ \A i \in 1..Len(data) : data[i].customer_id = i
    /\ \A i, j \in 1..Len(data) :
         i < j => data[i].customer_id < data[j].customer_id

C6_Witness == pc = "done" /\ Len(data) = n_samples /\ data[n_samples].customer_id = n_samples

\* C7: after clipping and before the adjustments every age is in [18, 70]
\* and every spending_score in [1, 100]; age stays in [18, 70] to the end.
\* (That the final spending_score can exceed 100 is the witness.)
C7_ClipRanges ==
  /\ Constructed =>
       \A i \in 1..Len(data) : data[i].age >= 18 /\ data[i].age <= 70
  /\ pc = "adjust_income" =>
       \A i \in 1..Len(data) :
         data[i].spending_score >= 1 * 100 /\ data[i].spending_score <= 100 * 100

C7_Witness ==
  /\ pc = "done"
  /\ \E i \in 1..Len(data) : data[i].spending_score > 100 * 100
  /\ \E i \in 1..Len(data) : mt[i].age < 18 /\ data[i].age = 18

\* C8: final income is the clipped draw plus age * 800, and final
\* spending_score is the clipped draw plus the final income / 5000; the
\* income is adjusted first.
C8_AdjustOrder ==
  LET base(i) == [age |-> Min(Max(mt[i].age, 18), 70),
                  income |-> Min(Max(mt[i].income, 20000), 150000),
                  spending_score |-> Min(Max(mt[i].spending_score, 100), 10000)]
  IN
  /\ pc = "adjust_spending" =>
       \A i \in 1..Len(data) :
         /\ data[i].income = base(i).income + base(i).age * 800
         /\ data[i].spending_score = base(i).spending_score
  /\ Adjusted =>
       \A i \in 1..n_samples :
         /\ data[i].income = base(i).income + base(i).age * 800
         /\ data[i].spending_score * 5000 =
              base(i).spending_score * 5000 + data[i].income * 100

C8_Witness ==
  /\ pc = "done"
  /\ \E i \in 1..Len(data) :
       mt[i].income > 150000 /\ data[i].income = 150000 + 70 * 800

C10_Partition ==
  Partitioned =>
    /\ Len(premium) + Len(non_premium) = n_samples
    /\ \A i \in 1..Len(data) :
         /\ data[i].is_premium \in {0, 1}
         /\ Count(premium, data[i].spending_score)
              + Count(non_premium, data[i].spending_score)
            = Cardinality({j \in 1..Len(data) :
                             data[j].spending_score = data[i].spending_score})
    /\ Count(written, ReportTxt) = 1 =>
         report[1].n_premium + report[1].n_non_premium = n_samples

C10_Witness ==
  /\ pc = "done"
  /\ Len(premium) = 1 /\ Len(non_premium) = n_samples - 1
  /\ report[1].n_premium = 1

====
